---- MODULE Spec2Model ----
(***************************************************************************)
(* Model of the Excel Merge Tool backend (backend/main.py,                 *)
(* backend/models.py): the file_records table, the record endpoints with   *)
(* their per-request database session, and the /chat proxy in front of the *)
(* external generation API.                                                *)
(*                                                                         *)
(* read_root, create_record and get_records are plain `def` handlers: the  *)
(* framework runs each request on a thread of its pool, so their steps     *)
(* interleave (Threads, pc[t]).  chat_with_gemini is an `async def`        *)
(* handler: it runs on the single event loop, one request at a time        *)
(* (chat_pc).                                                              *)
(***************************************************************************)
EXTENDS Integers, Sequences, FiniteSets, TLC

\* ------------------------------------------------------------------ bounds
\* rows the table may hold in a run
MaxRecords == 2
\* largest reading of the wall clock (datetime.utcnow); readings are 1..MaxTime
MaxTime == 2
\* longest chat history a request carries
MaxHistory == 2

\* threads of the pool that runs the `def` handlers
Threads == {"t1", "t2"}

VARIABLES
    client,         \* main.py:16-18  TRUE iff genai.Client was built at start
    tieOrder,       \* how the storage engine orders rows of equal timestamp
    now,            \* the wall clock read by datetime.datetime.utcnow
    store,          \* table file_records, rows in insertion (commit) order
    created,        \* the creates answered so far: <<id returned, body>>
    pc,             \* pc[t]: position of thread t in its handler
    req,            \* req[t]: the request thread t is handling
    db,             \* db[t]: the session get_db yielded to t, 0 when none
    sessions,       \* sessions opened by SessionLocal() and not yet closed
    db_record,      \* db_record[t]: the FileRecord object of create_record
    resp,           \* resp[t]: the HTTP response of t's request
    chat_pc,        \* position of the event loop in chat_with_gemini
    chat_req,       \* the /chat request body being handled
    calls,          \* generate_content calls made for the /chat request
    sent,           \* arguments of the generate_content call
    response,       \* what generate_content returned (response.text)
    exc,            \* the exception caught by `except Exception as e`
    printed,        \* lines the handler printed to stdout
    chat_resp       \* the HTTP response of the /chat request

pool_vars == <<now, store, created, pc, req, db, sessions, db_record, resp>>
chat_vars == <<chat_pc, chat_req, calls, sent, response, exc, printed, chat_resp>>
vars == <<client, tieOrder, pool_vars, chat_vars>>

\* ------------------------------------------------------------ plain values
\* Optional[str]: None is <<>>, the string s is <<s>>
None == <<>>
Some(s) == <<s>>

NoReq == [kind |-> "none"]
NoResp == [status |-> 0]
NoRecord == [filename |-> "", headers |-> <<>>, rows |-> <<>>, description |-> None,
             id |-> 0, timestamp |-> 0]

Range(s) == {s[i] : i \in 1..Len(s)}

\* ------------------------------------------------------- request bodies
\* POST /records/ bodies accepted as FileRecordCreate.  They share a filename
\* and differ in header order, rows and description (absent in the first).
FileRecordCreate ==
    { [filename |-> "a.csv", headers |-> <<"x", "y">>,
       rows |-> <<[x |-> 1, y |-> 2]>>, description |-> None],
      [filename |-> "a.csv", headers |-> <<"y", "x">>,
       rows |-> <<>>, description |-> Some("d")] }

\* ------------------------------------------------------------ the table
\* FileRecord with the description left out of the constructor call
FileRecord_noDescription(record) ==
    [filename |-> record.filename,
     headers |-> record.headers,
     rows |-> record.rows,
     description |-> None,
     id |-> 0, timestamp |-> 0]

\* models.FileRecord(filename=..., headers=..., rows=..., description=...):
\* id and timestamp are not set by the handler.
FileRecord(record) ==
    [filename |-> record.filename,
     headers |-> record.headers,
     rows |-> record.rows,
     description |-> record.description,
     id |-> 0, timestamp |-> 0]

\* Column(JSON): a value is written as JSON text and parsed when a row is
\* loaded.  The text is modelled as its sequence of tokens: punctuation,
\* string literals, numbers.
P(c) == [p |-> c]
S(s) == [s |-> s]
N(n) == [n |-> n]

RECURSIVE Flat(_)
Flat(ss) == IF ss = <<>> THEN <<>> ELSE Head(ss) \o Flat(Tail(ss))

\* headers: a list of strings
json_dumps_headers(headers) ==
    <<P("[")>> \o [i \in 1..Len(headers) |-> S(headers[i])] \o <<P("]")>>

json_loads_headers(text) == [i \in 1..(Len(text) - 2) |-> text[i + 1].s]

RECURSIVE DumpObject(_, _)
DumpObject(m, keys) ==
    IF keys = {} THEN <<>>
    ELSE LET k == CHOOSE k \in keys : TRUE
         IN  <<S(k), N(m[k])>> \o DumpObject(m, keys \ {k})

\* rows: a list of objects
json_dumps_rows(rows) ==
    <<P("[")>>
        \o Flat([i \in 1..Len(rows) |->
                   <<P("{")>> \o DumpObject(rows[i], DOMAIN rows[i]) \o <<P("}")>>])
        \o <<P("]")>>

MkObject(pairs) ==
    [k \in {q[1] : q \in pairs} |-> (CHOOSE q \in pairs : q[1] = k)[2]]

RECURSIVE LoadRows(_, _, _, _)
LoadRows(text, i, cur, acc) ==
    IF text[i] = P("]") THEN acc
    ELSE IF text[i] = P("{") THEN LoadRows(text, i + 1, {}, acc)
    ELSE IF text[i] = P("}") THEN LoadRows(text, i + 1, {}, Append(acc, MkObject(cur)))
    ELSE LoadRows(text, i + 2, cur \cup {<<text[i].s, text[i + 1].n>>}, acc)

json_loads_rows(text) == LoadRows(text, 2, {}, <<>>)

\* the table row written for a FileRecord object, the object loaded from a row
BindRow(obj) ==
    [obj EXCEPT !.headers = json_dumps_headers(obj.headers),
                !.rows = json_dumps_rows(obj.rows)]

LoadRow(row) ==
    [row EXCEPT !.headers = json_loads_headers(row.headers),
                !.rows = json_loads_rows(row.rows)]

\* Column(Integer, primary_key=True): the engine gives a new row the largest
\* id in the table plus one (1 in an empty table).
MaxId(rows) == IF rows = <<>> THEN 0
               ELSE CHOOSE m \in {rows[i].id : i \in 1..Len(rows)} :
                        \A i \in 1..Len(rows) : rows[i].id <= m

\* NextId that hands out the largest id in use again
NextId_reuse(rows) == IF rows = <<>> THEN 1 ELSE MaxId(rows)

NextId(rows) == MaxId(rows) + 1

\* Before for ORDER BY timestamp ASC
Before_ascending(r, q) ==
    \/ r.timestamp < q.timestamp
    \/ /\ r.timestamp = q.timestamp
       /\ IF tieOrder = "asc" THEN r.id < q.id ELSE r.id > q.id

\* Before with ties broken differently from one query to the next
Before_unstable(r, q) ==
    \/ r.timestamp > q.timestamp
    \/ /\ r.timestamp = q.timestamp
       /\ IF now % 2 = 1 THEN r.id < q.id ELSE r.id > q.id

\* Row r comes before row q in ORDER BY timestamp DESC.  Rows of equal
\* timestamp come out in an order the engine is free to choose; a given engine
\* chooses the same way throughout a run (tieOrder).
Before(r, q) == \/ r.timestamp > q.timestamp
                \/ /\ r.timestamp = q.timestamp
                   /\ IF tieOrder = "asc" THEN r.id < q.id ELSE r.id > q.id

\* db.query(FileRecord).order_by(FileRecord.timestamp.desc())
RECURSIVE OrderByTimestampDesc(_)
OrderByTimestampDesc(rows) ==
    IF rows = {} THEN <<>>
    ELSE LET first == CHOOSE r \in rows : \A q \in rows \ {r} : Before(r, q)
         IN  <<first>> \o OrderByTimestampDesc(rows \ {first})

\* .all(): the rows of the query, in its order, loaded as FileRecord objects
QueryAll ==
    LET found == OrderByTimestampDesc(Range(store))
    IN  [i \in 1..Len(found) |-> LoadRow(found[i])]

\* SessionLocal(): a new session object, distinct from every open one
SessionLocal == CHOOSE n \in 1..(Cardinality(Threads) + 1) : n \notin sessions

InFlightCreates == Cardinality({t \in Threads : pc[t] \in {"commit", "insert"}})

\* the framework's answer to an exception no handler catches
InternalServerError == [status |-> 500, body |-> [detail |-> "Internal Server Error"]]

\* the wall clock advances
Tick ==
    /\ now < MaxTime
    /\ now' = now + 1
    /\ UNCHANGED <<client, tieOrder, store, created, pc, req, db, sessions,
                   db_record, resp, chat_vars>>

\* ------------------------------------------------------------ GET /
read_root(t) ==
    /\ pc[t] = "idle"
    /\ req' = [req EXCEPT ![t] = [kind |-> "root"]]
    /\ resp' = [resp EXCEPT ![t] =
                  [status |-> 200,
                   body |-> [status |-> "ok",
                             message |-> "Backend Proxy (New SDK) is active"]]]
    /\ pc' = [pc EXCEPT ![t] = "done"]
    /\ UNCHANGED <<client, tieOrder, now, store, created, db, sessions,
                   db_record, chat_vars>>

\* ------------------------------------------------------- POST /records/
\* get_db up to its yield, then create_record up to db.add(db_record)
create_record(t, record) ==
    /\ pc[t] = "idle"
    /\ Len(store) + InFlightCreates < MaxRecords
    /\ req' = [req EXCEPT ![t] = [kind |-> "create", body |-> record]]
    /\ db' = [db EXCEPT ![t] = SessionLocal]
    /\ sessions' = sessions \cup {SessionLocal}
    /\ db_record' = [db_record EXCEPT ![t] = FileRecord(record)]
    /\ pc' = [pc EXCEPT ![t] = "commit"]
    /\ UNCHANGED <<client, tieOrder, now, store, created, resp, chat_vars>>

\* db.commit(), first half: the flush evaluates the column default
\* datetime.datetime.utcnow on the Python side, before the INSERT is sent.
commit_default(t) ==
    /\ pc[t] = "commit"
    /\ db_record' = [db_record EXCEPT ![t].timestamp = now]
    /\ pc' = [pc EXCEPT ![t] = "insert"]
    /\ UNCHANGED <<client, tieOrder, now, store, created, req, db, sessions,
                   resp, chat_vars>>

\* commit_insert as an upsert keyed on filename: rows of that filename are
\* replaced by the new one
commit_insert_upsert(t) ==
    /\ pc[t] = "insert"
    /\ LET row == [db_record[t] EXCEPT !.id = NextId(store)]
           Other(r) == r.filename # row.filename
       IN  /\ store' = Append(SelectSeq(store, Other), BindRow(row))
           /\ db_record' = [db_record EXCEPT ![t] = row]
    /\ pc' = [pc EXCEPT ![t] = "refresh"]
    /\ UNCHANGED <<client, tieOrder, now, created, req, db, sessions, resp,
                   chat_vars>>

\* db.commit(), second half: INSERT and COMMIT.  The engine assigns the id and
\* the row becomes durable and visible.
commit_insert(t) ==
    /\ pc[t] = "insert"
    /\ LET row == [db_record[t] EXCEPT !.id = NextId(store)]
       IN  /\ store' = Append(store, BindRow(row))
           /\ db_record' = [db_record EXCEPT ![t] = row]
    /\ pc' = [pc EXCEPT ![t] = "refresh"]
    /\ UNCHANGED <<client, tieOrder, now, created, req, db, sessions, resp,
                   chat_vars>>

\* db.commit() raises because the storage is unavailable: nothing is written,
\* the exception leaves the handler uncaught and the framework answers 500.
commit_error(t) ==
    /\ pc[t] = "insert"
    /\ resp' = [resp EXCEPT ![t] = InternalServerError]
    /\ pc' = [pc EXCEPT ![t] = "exit"]
    /\ UNCHANGED <<client, tieOrder, now, store, created, req, db, sessions,
                   db_record, chat_vars>>

\* db.refresh(db_record) reloads the row by its id; return {"id", "status"}
create_return(t) ==
    /\ pc[t] = "refresh"
    /\ LET row == LoadRow(CHOOSE r \in Range(store) : r.id = db_record[t].id)
       IN  /\ db_record' = [db_record EXCEPT ![t] = row]
           /\ resp' = [resp EXCEPT ![t] =
                         [status |-> 200,
                          body |-> [id |-> row.id, status |-> "saved"]]]
           /\ created' = created \cup {<<row.id, req[t].body>>}
    /\ pc' = [pc EXCEPT ![t] = "exit"]
    /\ UNCHANGED <<client, tieOrder, now, store, req, db, sessions, chat_vars>>

\* -------------------------------------------------------- GET /records/
\* get_db up to its yield, then the whole handler: one read-only query
get_records(t) ==
    /\ pc[t] = "idle"
    /\ req' = [req EXCEPT ![t] = [kind |-> "list"]]
    /\ db' = [db EXCEPT ![t] = SessionLocal]
    /\ sessions' = sessions \cup {SessionLocal}
    /\ resp' = [resp EXCEPT ![t] =
                  [status |-> 200,
                   body |-> [records |-> QueryAll]]]
    /\ pc' = [pc EXCEPT ![t] = "exit"]
    /\ UNCHANGED <<client, tieOrder, now, store, created, db_record, chat_vars>>

\* the query raises because the storage is unavailable
get_records_error(t) ==
    /\ pc[t] = "idle"
    /\ req' = [req EXCEPT ![t] = [kind |-> "list"]]
    /\ db' = [db EXCEPT ![t] = SessionLocal]
    /\ sessions' = sessions \cup {SessionLocal}
    /\ resp' = [resp EXCEPT ![t] = InternalServerError]
    /\ pc' = [pc EXCEPT ![t] = "exit"]
    /\ UNCHANGED <<client, tieOrder, now, store, created, db_record, chat_vars>>

\* get_db without the `finally`: db.close() runs only when the handler returned
get_db_close_noFinally(t) ==
    /\ pc[t] = "exit"
    /\ IF resp[t].status = 200
       THEN /\ sessions' = sessions \ {db[t]}
            /\ db' = [db EXCEPT ![t] = 0]
       ELSE UNCHANGED <<sessions, db>>
    /\ pc' = [pc EXCEPT ![t] = "done"]
    /\ UNCHANGED <<client, tieOrder, now, store, created, req, db_record, resp,
                   chat_vars>>

\* get_db after its yield: `finally: db.close()`, whether the handler returned
\* or raised
get_db_close(t) ==
    /\ pc[t] = "exit"
    /\ sessions' = sessions \ {db[t]}
    /\ db' = [db EXCEPT ![t] = 0]
    /\ pc' = [pc EXCEPT ![t] = "done"]
    /\ UNCHANGED <<client, tieOrder, now, store, created, req, db_record, resp,
                   chat_vars>>

\* the response is sent and the thread is free for the next request
send_response(t) ==
    /\ pc[t] = "done"
    /\ pc' = [pc EXCEPT ![t] = "idle"]
    /\ req' = [req EXCEPT ![t] = NoReq]
    /\ resp' = [resp EXCEPT ![t] = NoResp]
    /\ db_record' = [db_record EXCEPT ![t] = NoRecord]
    /\ UNCHANGED <<client, tieOrder, now, store, created, db, sessions,
                   chat_vars>>

\* ------------------------------------------------------------ POST /chat
\* The string literals of main.py are Chinese; they are written here in
\* ASCII.  "資料上下文：\n" and "使用者問題：" are the two labels of the prompt.
DataContextLabel == "Data context:\n"
QuestionLabel == "User question:"
\* system_instruction of GenerateContentConfig ("你是一個專業的資料分析助理。...")
SystemInstruction == "You are a professional data analysis assistant. Answer in Traditional Chinese from the data context."
\* ChatRequest.model default
DefaultModel == "gemini-2.0-flash"
NotConfigured == "Server Gemini API Key not configured"

NoExc == [type |-> "none", arg |-> ""]
NoSent == [model |-> "", contents |-> <<>>, system_instruction |-> ""]

\* A JSON value of a history list: an object (a mapping) or a string.
Obj(m) == [object |-> m]
HistoryEntries ==
    { Obj([role |-> "user", text |-> "a"]),
      Obj([role |-> "assistant", text |-> "b"]),
      Obj([text |-> "a"]),
      Obj([role |-> "user"]),
      [string |-> "oops"] }

Histories == UNION {[1..n -> HistoryEntries] : n \in 0..MaxHistory}

\* POST /chat bodies: with and without `model`, and one that lacks `message`
ChatBodies ==
    {[message |-> "hi", history |-> h, data_context |-> ""] : h \in Histories}
    \cup {[message |-> "What was the peak month?", history |-> h,
           data_context |-> "Q1 sales", model |-> "gemini-2.5-pro"] : h \in Histories}
    \cup {[history |-> <<>>, data_context |-> ""]}

\* texts generate_content may return, failures it may raise
ApiTexts == {"June", ""}
ApiErrors == {"429 quota exceeded"}

\* SchemaValid for a ChatRequest whose history is a list of {role, text} models
SchemaValid_typedTurns(body) ==
    /\ {"message", "history", "data_context"} \subseteq DOMAIN body
    /\ \A i \in 1..Len(body.history) :
          /\ "object" \in DOMAIN body.history[i]
          /\ {"role", "text"} \subseteq DOMAIN body.history[i].object

\* The framework parses the body as ChatRequest before it calls the handler:
\* message, history and data_context are required, history is List[dict].
SchemaValid(body) ==
    /\ {"message", "history", "data_context"} \subseteq DOMAIN body
    /\ \A i \in 1..Len(body.history) : "object" \in DOMAIN body.history[i]

\* the parsed request; `model` takes its default when the body omits it
ChatRequest(body) ==
    [message |-> body.message,
     history |-> body.history,
     data_context |-> body.data_context,
     model |-> IF "model" \in DOMAIN body THEN body.model ELSE DefaultModel]

\* the handler without its client check
ClientMissing_unchecked == FALSE

\* `if not client`
ClientMissing == ~client

\* the key whose lookup fails in m["role"], m["text"] ("" when none does)
MissingKey(m) == IF "role" \notin DOMAIN m.object THEN "role"
                 ELSE IF "text" \notin DOMAIN m.object THEN "text"
                 ELSE ""

\* the KeyError the loop over req.history raises, at its first bad entry
KeyErrorIn(history) ==
    LET bad == {i \in 1..Len(history) : MissingKey(history[i]) # ""}
    IN  IF bad = {} THEN NoExc
        ELSE LET i == CHOOSE j \in bad : \A k \in bad : j <= k
             IN  [type |-> "KeyError", arg |-> MissingKey(history[i])]

\* str(e): a KeyError prints the repr of its key
StrExc(e) == IF e.type = "KeyError" THEN "'" \o e.arg \o "'" ELSE e.arg

\* Content that passes the role of the turn through
Content_rolePassed(m) ==
    [role |-> m.object.role,
     parts |-> <<[text |-> m.object.text]>>]

\* types.Content(role=role, parts=[types.Part(text=m["text"])])
Content(m) ==
    [role |-> IF m.object.role = "user" THEN "user" ELSE "model",
     parts |-> <<[text |-> m.object.text]>>]

\* f"資料上下文：\n{req.data_context}\n\n使用者問題：{req.message}"
Prompt(r) == DataContextLabel \o r.data_context \o "\n\n" \o QuestionLabel \o r.message

\* the list `contents` at the generate_content call
Contents(r) ==
    [i \in 1..Len(r.history) |-> Content(r.history[i])]
        \o <<[role |-> "user", parts |-> <<[text |-> Prompt(r)]>>]>>

\* A /chat request arrives: body validation, the client check, the loop over
\* the history, and the call of generate_content, up to the point where the
\* handler waits for the API.
chat_with_gemini(body) ==
    /\ chat_pc = "idle"
    /\ chat_req' = body
    /\ IF ~SchemaValid(body)
       THEN /\ chat_resp' = [status |-> 422, body |-> [detail |-> "validation error"]]
            /\ chat_pc' = "done"
            /\ UNCHANGED <<calls, sent, exc>>
       ELSE IF ClientMissing
       THEN /\ chat_resp' = [status |-> 500, body |-> [detail |-> NotConfigured]]
            /\ chat_pc' = "done"
            /\ UNCHANGED <<calls, sent, exc>>
       ELSE IF KeyErrorIn(ChatRequest(body).history) # NoExc
       THEN /\ exc' = KeyErrorIn(ChatRequest(body).history)
            /\ chat_pc' = "except"
            /\ UNCHANGED <<calls, sent, chat_resp>>
       ELSE /\ sent' = [model |-> ChatRequest(body).model,
                        contents |-> Contents(ChatRequest(body)),
                        system_instruction |-> SystemInstruction]
            /\ calls' = calls + 1
            /\ chat_pc' = "generate"
            /\ UNCHANGED <<exc, chat_resp>>
    /\ UNCHANGED <<client, tieOrder, pool_vars, response, printed>>

\* generate_content returns; return {"text": response.text}
generate_content_returns(text) ==
    /\ chat_pc = "generate"
    /\ response' = Some(text)
    /\ chat_resp' = [status |-> 200, body |-> [text |-> text]]
    /\ chat_pc' = "done"
    /\ UNCHANGED <<client, tieOrder, pool_vars, chat_req, calls, sent, exc, printed>>

\* generate_content_raises with one retry of the call
generate_content_raises_retry(err) ==
    /\ chat_pc = "generate"
    /\ IF calls < 2
       THEN /\ calls' = calls + 1
            /\ UNCHANGED <<exc, chat_pc>>
       ELSE /\ exc' = [type |-> "APIError", arg |-> err]
            /\ chat_pc' = "except"
            /\ UNCHANGED calls
    /\ UNCHANGED <<client, tieOrder, pool_vars, chat_req, sent, response,
                   printed, chat_resp>>

\* generate_content raises (network, auth, quota, malformed response)
generate_content_raises(err) ==
    /\ chat_pc = "generate"
    /\ exc' = [type |-> "APIError", arg |-> err]
    /\ chat_pc' = "except"
    /\ UNCHANGED <<client, tieOrder, pool_vars, chat_req, calls, sent, response,
                   printed, chat_resp>>

\* except Exception as e: print(f"Gemini Error: {e}")
chat_print ==
    /\ chat_pc = "except"
    /\ printed' = Append(printed, "Gemini Error: " \o StrExc(exc))
    /\ chat_pc' = "raise"
    /\ UNCHANGED <<client, tieOrder, pool_vars, chat_req, calls, sent, response,
                   exc, chat_resp>>

\* raise HTTPException(status_code=500, detail=str(e))
chat_raise ==
    /\ chat_pc = "raise"
    /\ chat_resp' = [status |-> 500, body |-> [detail |-> StrExc(exc)]]
    /\ chat_pc' = "done"
    /\ UNCHANGED <<client, tieOrder, pool_vars, chat_req, calls, sent, response,
                   exc, printed>>

\* the response is sent and the event loop takes the next /chat request
chat_send ==
    /\ chat_pc = "done"
    /\ chat_pc' = "idle"
    /\ chat_req' = NoReq
    /\ calls' = 0
    /\ sent' = NoSent
    /\ response' = None
    /\ exc' = NoExc
    /\ printed' = <<>>
    /\ chat_resp' = NoResp
    /\ UNCHANGED <<client, tieOrder, pool_vars>>

\* ------------------------------------------------------ specifications
\* the process after start-up: load_dotenv, client, init_db
Init ==
    /\ client \in BOOLEAN
    /\ tieOrder \in {"asc", "desc"}
    /\ now = 1
    /\ store = <<>>
    /\ created = {}
    /\ pc = [t \in Threads |-> "idle"]
    /\ req = [t \in Threads |-> NoReq]
    /\ db = [t \in Threads |-> 0]
    /\ sessions = {}
    /\ db_record = [t \in Threads |-> NoRecord]
    /\ resp = [t \in Threads |-> NoResp]
    /\ chat_pc = "idle"
    /\ chat_req = NoReq
    /\ calls = 0
    /\ sent = NoSent
    /\ response = None
    /\ exc = NoExc
    /\ printed = <<>>
    /\ chat_resp = NoResp

\* the endpoints served by the thread pool, requests running concurrently
Next ==
    \/ Tick
    \/ \E t \in Threads : read_root(t)
    \/ \E t \in Threads : \E record \in FileRecordCreate : create_record(t, record)
    \/ \E t \in Threads : commit_default(t)
    \/ \E t \in Threads : commit_insert(t)
    \/ \E t \in Threads : commit_error(t)
    \/ \E t \in Threads : create_return(t)
    \/ \E t \in Threads : get_records(t)
    \/ \E t \in Threads : get_records_error(t)
    \/ \E t \in Threads : get_db_close(t)
    \/ \E t \in Threads : send_response(t)

Spec == Init /\ [][Next]_vars

\* the /chat endpoint served by the event loop
NextChat ==
    \/ \E body \in ChatBodies : chat_with_gemini(body)
    \/ \E text \in ApiTexts : generate_content_returns(text)
    \/ \E err \in ApiErrors : generate_content_raises(err)
    \/ chat_print
    \/ chat_raise
    \/ chat_send

SpecChat == Init /\ [][NextChat]_vars

\* every endpoint: the event loop takes a /chat request while no pool request
\* is in flight, the pool takes requests while the loop is idle
NextAll ==
    \/ /\ \A t \in Threads : pc[t] = "idle"
       /\ NextChat
    \/ /\ chat_pc = "idle"
       /\ Next

SpecAll == Init /\ [][NextAll]_vars

\* ------------------------------------------------------------- properties
\* thread t holds the answer of a get_records that succeeded
HoldsList(t) == req[t].kind = "list" /\ resp[t].status = 200

\* this step is thread t running get_records with success
ListStep(t) ==
    /\ pc[t] = "idle"
    /\ pc'[t] = "exit"
    /\ req'[t].kind = "list"
    /\ resp'[t].status = 200

\* thread t holds the answer of a create_record that succeeded
HoldsCreated(t) == req[t].kind = "create" /\ resp[t].status = 200

\* a body with message, history and data_context whose history entries are
\* all mappings
WellTyped(body) ==
    /\ "message" \in DOMAIN body
    /\ "data_context" \in DOMAIN body
    /\ "history" \in DOMAIN body
    /\ \A i \in 1..Len(body.history) : DOMAIN body.history[i] = {"object"}

\* a history entry that lacks the role or the text key
Malformed(history) ==
    \E i \in 1..Len(history) : ~({"role", "text"} \subseteq DOMAIN history[i].object)

\* C1 (round trip): every list made after a create was answered contains an
\* entry that has the id the create returned and the filename, headers (in
\* order), rows and description (null when omitted) of the create's body.
C1_RoundTrip ==
    [][\A t \in Threads : ListStep(t) =>
         \A c \in created :
            \E i \in 1..Len(resp'[t].body.records) :
               LET e == resp'[t].body.records[i]
               IN  /\ e.id = c[1]
                   /\ e.filename = c[2].filename
                   /\ e.headers = c[2].headers
                   /\ e.rows = c[2].rows
                   /\ e.description = c[2].description]_vars

\* a list answer shows two created records, one created without description
C1_Witness ==
    \E t \in Threads :
        /\ HoldsList(t)
        /\ Cardinality(created) = 2
        /\ \E c \in created : c[2].description = None
        /\ \A c \in created :
              \E i \in 1..Len(resp[t].body.records) :
                  resp[t].body.records[i].id = c[1]

\* the answer r of a list over the table: every row once, timestamps
\* non-increasing
SortedAnswer(r) ==
    /\ Len(r) = Len(store)
    /\ {r[i].id : i \in 1..Len(r)} = {store[i].id : i \in 1..Len(store)}
    /\ \A i \in 1..Len(r) : \E j \in 1..Len(store) :
          /\ r[i].id = store[j].id
          /\ r[i].timestamp = store[j].timestamp
    /\ \A i \in 1..(Len(r) - 1) : r[i].timestamp >= r[i + 1].timestamp

\* C2 (ordering, amended): list returns every stored record exactly once (the
\* empty sequence when there is none) in non-increasing timestamp order; a
\* record whose timestamp is strictly greater than every other's comes first.
C2_Ordering ==
    [][\A t \in Threads : ListStep(t) =>
         LET r == resp'[t].body.records
         IN  /\ SortedAnswer(r)
             /\ \A i \in 1..Len(r) :
                   (\A j \in 1..Len(r) : j # i => r[i].timestamp > r[j].timestamp)
                       => i = 1]_vars

\* C2 as claimed: ... so the most recently created record comes first.
C2_Original ==
    [][\A t \in Threads : ListStep(t) =>
         LET r == resp'[t].body.records
         IN  /\ SortedAnswer(r)
             /\ r # <<>> => r[1].id = store[Len(store)].id]_vars

\* a list answer of two records whose order is the reverse of insertion
C2_Witness ==
    \E t \in Threads :
        /\ HoldsList(t)
        /\ Len(resp[t].body.records) = 2
        /\ resp[t].body.records[1].timestamp > resp[t].body.records[2].timestamp
        /\ resp[t].body.records[1].id > resp[t].body.records[2].id

\* C6 (identifiers): stored ids are pairwise distinct and strictly increasing
\* in insertion order, the first row of an empty table gets id 1, the id a
\* create returns is the id of the row holding its body, and no step changes
\* the id of a stored row.
C6_Identifiers ==
    /\ [](/\ \A i, j \in 1..Len(store) : i < j => store[i].id < store[j].id
          /\ store # <<>> => store[1].id = 1
          /\ \A t \in Threads : HoldsCreated(t) =>
                \E i \in 1..Len(store) :
                    /\ store[i].id = resp[t].body.id
                    /\ store[i].filename = req[t].body.filename
                    /\ store[i].description = req[t].body.description)
    /\ [][\A i \in 1..Len(store) :
             /\ i <= Len(store')
             /\ store'[i].id = store[i].id]_vars

\* two creates ran interleaved: the row inserted second was stamped first
C6_Witness ==
    /\ Len(store) = 2
    /\ store[1].timestamp > store[2].timestamp
    /\ \A t \in Threads : HoldsCreated(t)

\* C7 (append only): no step of any endpoint changes or removes a stored row;
\* the table grows by exactly one row exactly when a create commits.
C7_AppendOnly ==
    [][/\ \A i \in 1..Len(store) : i <= Len(store') /\ store'[i] = store[i]
       /\ Len(store') <= Len(store) + 1
       /\ Len(store') = Len(store) + 1
             <=> \E t \in Threads : pc[t] = "insert" /\ pc'[t] = "refresh"]_vars

\* two rows of one filename are stored and a /chat call has been answered by
\* the API
C7_Witness ==
    /\ Len(store) = 2
    /\ store[1].filename = store[2].filename
    /\ chat_pc = "done"
    /\ calls = 1

\* C8 (idempotent read): get_records leaves the table unchanged, and its
\* answer equals the answer another list got from the same table contents.
C8_IdempotentRead ==
    [][\A t \in Threads : ListStep(t) =>
         /\ store' = store
         /\ \A u \in Threads \ {t} :
               (HoldsList(u) /\ Len(resp[u].body.records) = Len(store))
                   => resp'[t].body.records = resp[u].body.records]_vars

\* two list answers over the same two rows of equal timestamp
C8_Witness ==
    \E t, u \in Threads :
        /\ t # u
        /\ HoldsList(t) /\ HoldsList(u)
        /\ Len(resp[t].body.records) = 2
        /\ resp[t].body.records = resp[u].body.records
        /\ resp[t].body.records[1].timestamp = resp[t].body.records[2].timestamp

\* C9 (scoped session): a thread inside a record handler holds an open session
\* of its own; a thread whose request has ended holds none, whether the
\* handler returned or raised; the open sessions are exactly the ones held.
C9_ScopedSession ==
    /\ \A t \in Threads :
          /\ pc[t] \in {"commit", "insert", "refresh", "exit"}
                => db[t] # 0 /\ db[t] \in sessions
          /\ pc[t] \in {"idle", "done"} => db[t] = 0
    /\ \A t, u \in Threads : (t # u /\ db[t] # 0) => db[t] # db[u]
    /\ sessions = {db[t] : t \in Threads} \ {0}

\* a create that failed has ended with its session closed while another
\* request, itself failed, still holds its own
C9_Witness ==
    \E t, u \in Threads :
        /\ pc[t] = "done" /\ req[t].kind = "create" /\ resp[t].status = 500
        /\ pc[u] = "exit" /\ req[u].kind = "list" /\ resp[u].status = 500
        /\ sessions = {db[u]}

\* C3 (misconfiguration, amended): with no client, every /chat call whose body
\* the ChatRequest schema accepts is answered 500 with the fixed message,
\* malformed history mappings included; a body the schema rejects is answered
\* 422; generate_content is never called; client never changes.
C3_Misconfigured ==
    /\ [](~client =>
            /\ calls = 0
            /\ chat_pc \in {"idle", "done"}
            /\ chat_pc = "done" =>
                  IF WellTyped(chat_req)
                  THEN chat_resp = [status |-> 500, body |-> [detail |-> NotConfigured]]
                  ELSE chat_resp.status = 422)
    /\ [][client' = client]_vars

\* C3 as claimed: every /chat call is answered 500, whatever its body.
C3_Original ==
    (~client /\ chat_pc = "done") =>
        /\ chat_resp = [status |-> 500, body |-> [detail |-> NotConfigured]]
        /\ calls = 0

\* no client, and a call whose history holds a malformed mapping was answered
C3_Witness ==
    /\ ~client
    /\ chat_pc = "done"
    /\ WellTyped(chat_req)
    /\ Malformed(chat_req.history)
    /\ chat_resp.status = 500

\* C4 (prompt assembly): the contents passed to generate_content hold one unit
\* per history turn, in order, with the turn's text and role "user" for a
\* "user" turn and "model" otherwise, then one "user" unit whose text is the
\* data label, data_context, a blank line, the question label and message.
C4_PromptAssembly ==
    calls >= 1 =>
        LET h == chat_req.history
            c == sent.contents
            n == Len(h)
        IN  /\ Len(c) = n + 1
            /\ \A i \in 1..n :
                  /\ c[i].parts = <<[text |-> h[i].object.text]>>
                  /\ h[i].object.role = "user" => c[i].role = "user"
                  /\ h[i].object.role # "user" => c[i].role = "model"
            /\ c[n + 1].role = "user"
            /\ c[n + 1].parts =
                  <<[text |-> DataContextLabel \o chat_req.data_context \o "\n\n"
                                  \o QuestionLabel \o chat_req.message]>>

\* a call with a two-turn history, a model turn before a user turn
C4_Witness ==
    /\ calls = 1
    /\ Len(chat_req.history) = 2
    /\ chat_req.history[1].object.role = "assistant"
    /\ chat_req.history[2].object.role = "user"
    /\ chat_req.data_context = "Q1 sales"

\* C5 (upstream failure): generate_content is called at most once per request;
\* when it raised, the line "Gemini Error: <e>" is printed before any answer
\* exists, the answer is 500 with detail str(e) and no text; when it returned,
\* the answer is 200 with exactly the returned text.
C5_Upstream ==
    /\ calls <= 1
    /\ exc.type = "APIError" =>
          /\ calls = 1
          /\ response = None
          /\ chat_pc \in {"except", "raise", "done"}
          /\ chat_pc = "except" => chat_resp = NoResp /\ printed = <<>>
          /\ chat_pc = "raise" =>
                chat_resp = NoResp /\ printed = <<"Gemini Error: " \o exc.arg>>
          /\ chat_pc = "done" =>
                /\ printed = <<"Gemini Error: " \o exc.arg>>
                /\ chat_resp = [status |-> 500, body |-> [detail |-> exc.arg]]
    /\ response # None =>
          /\ calls = 1
          /\ chat_pc = "done"
          /\ chat_resp = [status |-> 200, body |-> [text |-> response[1]]]

\* the API raised and the request was answered
C5_Witness ==
    /\ exc.type = "APIError"
    /\ chat_pc = "done"
    /\ chat_resp.status = 500

\* C10 (malformed history): with a client, a request the schema accepts whose
\* history holds a mapping without role or text is answered 500 with the
\* KeyError's text as detail, never 4xx, never with a text, and
\* generate_content is not called for it.
C10_MalformedHistory ==
    (/\ client
     /\ chat_pc # "idle"
     /\ WellTyped(chat_req)
     /\ Malformed(chat_req.history)) =>
        /\ calls = 0
        /\ response = None
        /\ chat_pc \in {"except", "raise", "done"}
        /\ chat_pc = "done" =>
              /\ chat_resp.status = 500
              /\ chat_resp.body \in {[detail |-> "'role'"], [detail |-> "'text'"]}

\* a request whose second turn lacks its text was answered
C10_Witness ==
    /\ client
    /\ chat_pc = "done"
    /\ WellTyped(chat_req)
    /\ Len(chat_req.history) = 2
    /\ DOMAIN chat_req.history[1].object = {"role", "text"}
    /\ DOMAIN chat_req.history[2].object = {"role"}
    /\ chat_resp = [status |-> 500, body |-> [detail |-> "'text'"]]

====
